---- MODULE Spec2Model ----
(***************************************************************************)
(* Model of handwriting-detect-rs (src/src/main.rs): the IDX label/image  *)
(* decoder, the per-label aggregation and the rendering done by main.     *)
(*                                                                         *)
(* Machine integers.  A u32 or usize value is a sequence of base-256      *)
(* digits, least significant first (4 digits for u32, 8 for usize on a    *)
(* 64-bit target), so that products of header fields are computed with    *)
(* their real width.  Rust's `*` and `+` panic on overflow when the       *)
(* binary is built with overflow checks (the dev profile) and wrap when   *)
(* it is built without them (the release profile); overflow_checks        *)
(* records which binary runs.                                             *)
(***************************************************************************)
EXTENDS Integers, Sequences, FiniteSets

VARIABLES
  overflow_checks,  \* TRUE: the binary panics on integer overflow; FALSE: it wraps
  args_len,         \* args.len(), the program name included
  pc,               \* main's position
  labels_file,      \* the file args[1] names, as read_labels found it
  images_file,      \* the file args[2] names, as read_images found it
  labels,           \* read_labels' Result, with the I/O operations it did
  images,           \* read_images' Result, with the I/O operations it did
  label2sum,        \* the BTreeMap from label to its sum image
  i,                \* the aggregation loop's index
  rendered,         \* the labels whose composite the render loop has visited
  stdout,           \* what has been printed, in order
  status            \* "running", "ok", or the error or panic main ended with

vars == <<overflow_checks, args_len, pc, labels_file, images_file, labels, images,
          label2sum, i, rendered, stdout, status>>

\* ------------------------------------------------------------ bounds
MaxCount == 2
MaxPayload == 4
MaxArgs == 4

\* ---------------------------------------------------- program constants
U32Bytes == 4
UsizeBytes == 8
LabelHeaderSize == 8
ImageHeaderSize == 16
RequiredArgs == 3
MaxGray == 255

\* -------------------------------------------------- machine arithmetic
RECURSIVE Digits(_, _)
\* n (a small natural) as k base-256 digits: `n as usize`, `n as u32`
Digits(n, k) == IF k = 0 THEN <<>> ELSE <<n % 256>> \o Digits(n \div 256, k - 1)

\* widening cast `x as usize` of a u32
Widen(d, k) == [j \in 1..k |-> IF j <= Len(d) THEN d[j] ELSE 0]

RECURSIVE Carry(_, _, _)
Carry(c, j, carry) ==
  IF j > Len(c) THEN <<>>
  ELSE LET t == c[j] + carry
       IN <<t % 256>> \o Carry(c, j + 1, t \div 256)

RECURSIVE ConvSum(_, _, _, _)
ConvSum(a, b, k, j) ==
  IF j > Len(a) THEN 0
  ELSE (IF k + 1 - j >= 1 /\ k + 1 - j <= Len(b) THEN a[j] * b[k + 1 - j] ELSE 0)
       + ConvSum(a, b, k, j + 1)

\* the exact (mathematical) product and sum of two digit sequences
MulD(a, b) == Carry([k \in 1..(Len(a) + Len(b)) |-> ConvSum(a, b, k, 1)], 1, 0)
AddD(a, b) ==
  LET n == IF Len(a) >= Len(b) THEN Len(a) ELSE Len(b)
  IN Carry([j \in 1..(n + 1) |->
              (IF j <= Len(a) THEN a[j] ELSE 0) + (IF j <= Len(b) THEN b[j] ELSE 0)],
           1, 0)

\* equality of the numbers two digit sequences denote
EqD(a, b) ==
  \A j \in 1..(IF Len(a) >= Len(b) THEN Len(a) ELSE Len(b)) :
     (IF j <= Len(a) THEN a[j] ELSE 0) = (IF j <= Len(b) THEN b[j] ELSE 0)

IsZero(d) == \A j \in 1..Len(d) : d[j] = 0

\* a machine operation of width w on an exact result: the wrapped value and
\* whether the exact result did not fit
Machine(exact, w) ==
  [value |-> [j \in 1..w |-> IF j <= Len(exact) THEN exact[j] ELSE 0],
   overflow |-> \E j \in (w + 1)..Len(exact) : exact[j] # 0]

\* the number of a digit sequence as a natural; anything of more than three
\* significant digits is larger than every file and vector of the model and
\* is reported as 256^3
ToNat(d) ==
  IF \E j \in 4..Len(d) : d[j] # 0 THEN 256 * 256 * 256
  ELSE (IF Len(d) >= 1 THEN d[1] ELSE 0)
       + 256 * (IF Len(d) >= 2 THEN d[2] ELSE 0)
       + 256 * 256 * (IF Len(d) >= 3 THEN d[3] ELSE 0)

\* the bytes taken in the opposite order, the first as the least significant digit
from_le_bytes(buffer) == [j \in 1..U32Bytes |-> buffer[j]]

\* u32::from_be_bytes: the first byte is the most significant digit
from_be_bytes(buffer) == [j \in 1..U32Bytes |-> buffer[U32Bytes + 1 - j]]

\* ------------------------------------------------------------ results
Ok(v, io) == [ok |-> TRUE, err |-> "", detail |-> <<>>, value |-> v, io |-> io]
Err(e, detail, io) == [ok |-> FALSE, err |-> e, detail |-> detail, value |-> <<>>, io |-> io]

\* the Result of a decode that main has not called yet
NotCalled == [ok |-> FALSE, err |-> "", detail |-> <<>>, value |-> <<>>, io |-> <<>>]

\* the I/O operations a decode performs on its file, in order
OpOpen == "open"
OpReadHeader == "read_u32"
OpMetadata == "metadata"
OpReadData == "read_data"

\* ------------------------------------------------------------ decoder
LABEL_MAGIC_NUMBER == <<1, 8, 0, 0>>
IMAGE_MAGIC_NUMBER == <<3, 8, 0, 0>>

\* a file of the file system: whether it can be opened, and its bytes
NoFile == [exists |-> FALSE, bytes |-> <<>>]
FileOf(bytes) == [exists |-> TRUE, bytes |-> bytes]

\* read_exact of n bytes at offset pos: the bytes, or a short read
CanRead(bytes, pos, n) == Len(bytes) - pos >= n
ReadAt(bytes, pos, n) == SubSeq(bytes, pos + 1, pos + n)

read_be_u32(bytes, pos) ==
  IF CanRead(bytes, pos, U32Bytes)
  THEN [ok |-> TRUE, value |-> from_be_bytes(ReadAt(bytes, pos, U32Bytes))]
  ELSE [ok |-> FALSE, value |-> <<>>]

\* a comparison of the low 16 bits of the magic only
magic_mismatch_low_half(actual, expected) == SubSeq(expected, 1, 2) # SubSeq(actual, 1, 2)

\* TRUE when the magic number is reported as unexpected
maybe_report_magic_mismatch(actual, expected) == expected # actual

\* a size check that reports only a file longer than expected
filesize_longer_only(bytes, expected_size) == Len(bytes) > ToNat(expected_size)

\* TRUE when the file size is reported as unexpected
maybe_report_unexpected_filesize(bytes, expected_size) ==
  Digits(Len(bytes), UsizeBytes) # expected_size

\* 8 + count, in usize
label_expected_filesize(count) ==
  Machine(AddD(Digits(LabelHeaderSize, UsizeBytes), count), UsizeBytes)

read_labels(file, checks) ==
  IF ~file.exists THEN Err("NotFound", <<>>, <<OpOpen>>)
  ELSE
  LET bytes == file.bytes
      magic == read_be_u32(bytes, 0)
      io1 == <<OpOpen, OpReadHeader>>
  IN
  IF ~magic.ok THEN Err("TruncatedInput", <<>>, io1)
  ELSE IF maybe_report_magic_mismatch(magic.value, LABEL_MAGIC_NUMBER)
  THEN Err("MagicMismatch", <<magic.value, LABEL_MAGIC_NUMBER>>, io1)
  ELSE
  LET countr == read_be_u32(bytes, U32Bytes)
      io2 == io1 \o <<OpReadHeader>>
  IN
  IF ~countr.ok THEN Err("TruncatedInput", <<>>, io2)
  ELSE
  LET count == Widen(countr.value, UsizeBytes)
      expected == label_expected_filesize(count)
      io3 == io2 \o <<OpMetadata>>
  IN
  IF expected.overflow /\ checks THEN Err("PanicOverflow", <<>>, io2)
  ELSE IF maybe_report_unexpected_filesize(bytes, expected.value)
  THEN Err("SizeMismatch", <<expected.value, Digits(Len(bytes), UsizeBytes)>>, io3)
  ELSE
  LET n == ToNat(count)
      io4 == io3 \o <<OpReadData>>
  IN
  IF ~CanRead(bytes, LabelHeaderSize, n) THEN Err("TruncatedInput", <<>>, io4)
  ELSE Ok(ReadAt(bytes, LabelHeaderSize, n), io4)

\* ------------------------------------------------------------- images
NoImage == [width |-> <<>>, height |-> <<>>, data |-> <<>>]

\* a * b in u32
u32_mul(a, b) == Machine(MulD(a, b), U32Bytes)

\* Image::new: the assertion compares (width * height) as usize with data.len()
Image_new(width, height, data, checks) ==
  LET size == u32_mul(width, height)
  IN IF size.overflow /\ checks
     THEN [ok |-> FALSE, err |-> "PanicOverflow", value |-> NoImage]
     ELSE IF Widen(size.value, UsizeBytes) # Digits(Len(data), UsizeBytes)
     THEN [ok |-> FALSE, err |-> "PanicAssert", value |-> NoImage]
     ELSE [ok |-> TRUE, err |-> "",
           value |-> [width |-> width, height |-> height, data |-> data]]

\* 16 + count * (pixels as usize), in usize; pixels is rows * columns in u32
image_expected_filesize(count, pixels) ==
  LET prod == Machine(MulD(count, pixels), UsizeBytes)
      sum == Machine(AddD(Digits(ImageHeaderSize, UsizeBytes), prod.value), UsizeBytes)
  IN [value |-> sum.value, overflow |-> prod.overflow \/ sum.overflow]

RECURSIVE read_image_loop(_, _, _, _, _, _, _)
\* the loop of read_images: `remaining` images of image_size bytes from pos on
read_image_loop(bytes, pos, remaining, columns, rows, image_size, checks) ==
  IF remaining = 0 THEN [err |-> "", images |-> <<>>, reads |-> 0]
  ELSE IF ~CanRead(bytes, pos, image_size)
  THEN [err |-> "TruncatedInput", images |-> <<>>, reads |-> 1]
  ELSE
  LET img == Image_new(columns, rows, ReadAt(bytes, pos, image_size), checks)
  IN IF ~img.ok THEN [err |-> img.err, images |-> <<>>, reads |-> 1]
     ELSE LET rest == read_image_loop(bytes, pos + image_size, remaining - 1,
                                      columns, rows, image_size, checks)
          IN [err |-> rest.err,
              images |-> IF rest.err = "" THEN <<img.value>> \o rest.images ELSE <<>>,
              reads |-> 1 + rest.reads]

read_images(file, checks) ==
  IF ~file.exists THEN Err("NotFound", <<>>, <<OpOpen>>)
  ELSE
  LET bytes == file.bytes
      magic == read_be_u32(bytes, 0)
      io1 == <<OpOpen, OpReadHeader>>
  IN
  IF ~magic.ok THEN Err("TruncatedInput", <<>>, io1)
  ELSE IF maybe_report_magic_mismatch(magic.value, IMAGE_MAGIC_NUMBER)
  THEN Err("MagicMismatch", <<magic.value, IMAGE_MAGIC_NUMBER>>, io1)
  ELSE
  LET countr == read_be_u32(bytes, U32Bytes)
      rowsr == read_be_u32(bytes, 2 * U32Bytes)
      columnsr == read_be_u32(bytes, 3 * U32Bytes)
      io2 == io1 \o <<OpReadHeader>>
      io3 == io2 \o <<OpReadHeader>>
      io4 == io3 \o <<OpReadHeader>>
  IN
  IF ~countr.ok THEN Err("TruncatedInput", <<>>, io2)
  ELSE IF ~rowsr.ok THEN Err("TruncatedInput", <<>>, io3)
  ELSE IF ~columnsr.ok THEN Err("TruncatedInput", <<>>, io4)
  ELSE
  LET count == countr.value
      rows == rowsr.value
      columns == columnsr.value
      pixels == u32_mul(rows, columns)
      expected == image_expected_filesize(count, pixels.value)
      io5 == io4 \o <<OpMetadata>>
  IN
  IF (pixels.overflow \/ expected.overflow) /\ checks
  THEN Err("PanicOverflow", <<>>, io4)
  ELSE IF maybe_report_unexpected_filesize(bytes, expected.value)
  THEN Err("SizeMismatch", <<expected.value, Digits(Len(bytes), UsizeBytes)>>, io5)
  ELSE
  LET image_size == u32_mul(columns, rows)
      loop == read_image_loop(bytes, ImageHeaderSize, ToNat(count), columns, rows,
                              ToNat(image_size.value), checks)
      io6 == io5 \o [k \in 1..loop.reads |-> OpReadData]
  IN
  IF image_size.overflow /\ checks THEN Err("PanicOverflow", <<>>, io5)
  ELSE IF loop.err # "" THEN Err(loop.err, <<>>, io6)
  ELSE Ok(loop.images, io6)

\* ---------------------------------------------------------------- main
Out(kind, a, b, pixels) == [kind |-> kind, a |-> a, b |-> b, pixels |-> pixels]
Status(kind, detail) == [kind |-> kind, detail |-> detail]

\* a check for missing arguments only
too_few_args(n) == n < RequiredArgs

\* `args.len() != 3`
wrong_args(n) == n # RequiredArgs

\* a check for missing images only
labels_exceed_images(nlabels, nimages) == nlabels > nimages

\* `labels.len() != images.len()`
labels_vs_image_mismatch(nlabels, nimages) == nlabels # nimages

Zeros(n) == [p \in 1..n |-> 0]

Put(map, key, value) ==
  [k \in (DOMAIN map) \cup {key} |-> IF k = key THEN value ELSE map[k]]

\* `s.data[pixel] += image.data[pixel] as u32` for every pixel of image.  The
\* sums of the model stay below 255 * (MaxCount + 1), far from the width of u32.
add_image(s, image) ==
  [s EXCEPT !.data = [p \in 1..Len(s.data) |->
                        IF p <= Len(image.data) THEN s.data[p] + image.data[p]
                        ELSE s.data[p]]]

\* one iteration of the summing loop: the map after it, or the panic
aggregate_step(map, label, image, checks) ==
  LET fresh == Image_new(image.width, image.height, Zeros(Len(image.data)), checks)
  IN IF label \notin DOMAIN map /\ ~fresh.ok
     THEN [err |-> fresh.err, map |-> map]
     ELSE LET s == IF label \in DOMAIN map THEN map[label] ELSE fresh.value
          IN IF Len(image.data) > Len(s.data)
             THEN [err |-> "PanicIndex", map |-> map]
             ELSE [err |-> "", map |-> Put(map, label, add_image(s, image))]

RECURSIVE MaxOf(_, _)
\* `max_value = max(max_value, *val)` over data, from 0
MaxOf(data, k) ==
  IF k > Len(data) THEN 0
  ELSE LET rest == MaxOf(data, k + 1)
       IN IF data[k] >= rest THEN data[k] ELSE rest

\* the closure `|value| (255 * value / max_value) as u8`, max_value # 0
convert(value, max_value) == ((MaxGray * value) \div max_value) % 256

\* Image::print_with_conversion with that closure: the intensities printed, in
\* the order y, x of the loops (index y * width + x runs over 0, 1, 2, ...),
\* and the panic that ends it, if any
print_with_conversion(image, max_value) ==
  IF IsZero(MulD(image.width, image.height))
  THEN [printed |-> <<>>, err |-> ""]
  ELSE IF Len(image.data) = 0
  THEN [printed |-> <<>>, err |-> "PanicIndex"]
  ELSE IF max_value = 0
  THEN [printed |-> <<>>, err |-> "PanicDivZero"]
  ELSE [printed |-> [p \in 1..Len(image.data) |-> convert(image.data[p], max_value)],
        err |-> IF EqD(MulD(image.width, image.height),
                       Digits(Len(image.data), UsizeBytes))
                THEN "" ELSE "PanicIndex"]

\* ---------------------------------------------------------- the inputs
LabelVals == {3, 5}
PixelVals == {0, 255}
MutBytes == {0, 3, 255}
CountVals == {Digits(c, U32Bytes) : c \in 0..MaxCount}
DimVals == {Digits(d, U32Bytes) : d \in {0, 1, 2, 256 * 256}}

to_be_bytes(d) == [j \in 1..U32Bytes |-> d[U32Bytes + 1 - j]]
SeqsUpTo(S, n) == UNION {[1..k -> S] : k \in 0..n}
Mutations(magic) ==
  {[magic EXCEPT ![k] = v] : k \in 1..U32Bytes, v \in MutBytes} \ {magic}
Prefixes(bytes) == {SubSeq(bytes, 1, n) : n \in 0..(Len(bytes) - 1)}

LabelHeader(magic, count) == to_be_bytes(magic) \o to_be_bytes(count)
ImageHeader(magic, count, rows, columns) ==
  to_be_bytes(magic) \o to_be_bytes(count) \o to_be_bytes(rows) \o to_be_bytes(columns)

\* the files args[1] may name: none; a label header followed by any short
\* payload; a consistent file with one magic byte changed; a cut header
LabelFiles ==
  {NoFile}
  \cup {FileOf(LabelHeader(LABEL_MAGIC_NUMBER, c) \o p) :
          c \in CountVals, p \in SeqsUpTo(LabelVals, MaxCount + 1)}
  \cup UNION {{FileOf(LabelHeader(m, c) \o p) : p \in [1..ToNat(c) -> LabelVals]} :
                m \in Mutations(LABEL_MAGIC_NUMBER), c \in CountVals}
  \cup UNION {{FileOf(b) : b \in Prefixes(LabelHeader(LABEL_MAGIC_NUMBER, c))} :
                c \in CountVals}

\* count * rows * columns as exact numbers
PayloadSize(c, r, k) == ToNat(MulD(MulD(c, r), k))

ImageFiles ==
  {NoFile}
  \cup {FileOf(ImageHeader(IMAGE_MAGIC_NUMBER, c, r, k) \o p) :
          c \in CountVals, r \in DimVals, k \in DimVals,
          p \in SeqsUpTo(PixelVals, MaxPayload)}
  \cup UNION {{FileOf(ImageHeader(m, c, r, k) \o p) :
                 p \in IF PayloadSize(c, r, k) <= MaxPayload
                       THEN [1..PayloadSize(c, r, k) -> PixelVals] ELSE {}} :
                m \in Mutations(IMAGE_MAGIC_NUMBER),
                c \in CountVals, r \in DimVals, k \in DimVals}
  \cup UNION {{FileOf(b) : b \in Prefixes(ImageHeader(IMAGE_MAGIC_NUMBER, c, r, k))} :
                c \in CountVals, r \in DimVals, k \in DimVals}

\* -------------------------------------------------------------- state
Init ==
  /\ overflow_checks \in BOOLEAN
  /\ args_len \in 1..MaxArgs
  /\ pc = "main"
  /\ labels_file = NoFile
  /\ images_file = NoFile
  /\ labels = NotCalled
  /\ images = NotCalled
  /\ label2sum = <<>>
  /\ i = 0
  /\ rendered = {}
  /\ stdout = <<>>
  /\ status = Status("running", <<>>)

\* main, lines 119-122: the wrong number of arguments prints the usage
Usage ==
  /\ pc = "main"
  /\ wrong_args(args_len)
  /\ stdout' = Append(stdout, Out("usage", 0, 0, <<>>))
  /\ status' = Status("UsageError", <<>>)
  /\ pc' = "exit"
  /\ UNCHANGED <<overflow_checks, args_len, labels_file, images_file, labels, images,
                 label2sum, i, rendered>>

\* main, line 123
ReadLabels ==
  /\ pc = "main"
  /\ ~wrong_args(args_len)
  /\ \E f \in LabelFiles : \E r \in {read_labels(f, overflow_checks)} :
          /\ labels_file' = f
          /\ labels' = r
          /\ status' = IF r.ok THEN status ELSE Status(r.err, r.detail)
          /\ pc' = IF r.ok THEN "read_images" ELSE "exit"
  /\ UNCHANGED <<overflow_checks, args_len, images_file, images,
                 label2sum, i, rendered, stdout>>

\* main, line 124
ReadImages ==
  /\ pc = "read_images"
  /\ \E f \in ImageFiles : \E r \in {read_images(f, overflow_checks)} :
          /\ images_file' = f
          /\ images' = r
          /\ status' = IF r.ok THEN status ELSE Status(r.err, r.detail)
          /\ pc' = IF r.ok THEN "check" ELSE "exit"
  /\ UNCHANGED <<overflow_checks, args_len, labels_file, labels,
                 label2sum, i, rendered, stdout>>

\* main, lines 126-132
CountCheck ==
  /\ pc = "check"
  /\ stdout' = Append(stdout, Out("progress", Len(labels.value), Len(images.value), <<>>))
  /\ IF labels_vs_image_mismatch(Len(labels.value), Len(images.value))
     THEN /\ status' = Status("LabelImageCountMismatch", <<>>)
          /\ pc' = "exit"
     ELSE /\ status' = status
          /\ pc' = IF Len(labels.value) = 0 THEN "render" ELSE "aggregate"
  /\ UNCHANGED <<overflow_checks, args_len, labels_file, images_file, labels, images,
                 label2sum, i, rendered>>

\* main, lines 138-152: one iteration of the summing loop
Aggregate ==
  /\ pc = "aggregate"
  /\ i < Len(labels.value)
  /\ IF i + 1 > Len(images.value)
     THEN /\ status' = Status("PanicIndex", <<>>)
          /\ pc' = "exit"
          /\ UNCHANGED <<label2sum, i>>
     ELSE \E r \in {aggregate_step(label2sum, labels.value[i + 1], images.value[i + 1],
                                    overflow_checks)} :
             /\ label2sum' = r.map
             /\ i' = i + 1
             /\ status' = IF r.err = "" THEN status ELSE Status(r.err, <<>>)
             /\ pc' = IF r.err # "" THEN "exit"
                      ELSE IF i + 1 = Len(labels.value) THEN "render" ELSE "aggregate"
  /\ UNCHANGED <<overflow_checks, args_len, labels_file, images_file, labels, images,
                 rendered, stdout>>

\* the key the BTreeMap's iteration visits next: the least not yet visited
NextLabel == CHOOSE l \in (DOMAIN label2sum) \ rendered :
               \A m \in (DOMAIN label2sum) \ rendered : l <= m

\* main, lines 154-161: one iteration of the rendering loop
Render ==
  /\ pc = "render"
  /\ (DOMAIN label2sum) \ rendered # {}
  /\ \E label \in {NextLabel} :
     \E max_value \in {MaxOf(label2sum[label].data, 1)} :
     \E r \in {print_with_conversion(label2sum[label], max_value)} :
        /\ stdout' = stdout \o <<Out("label", label, max_value, <<>>),
                                 Out("pixels", label, max_value, r.printed)>>
        /\ rendered' = rendered \cup {label}
        /\ status' = IF r.err = "" THEN status ELSE Status(r.err, <<>>)
        /\ pc' = IF r.err = "" THEN "render" ELSE "exit"
  /\ UNCHANGED <<overflow_checks, args_len, labels_file, images_file, labels, images,
                 label2sum, i>>

\* main, line 164
Finish ==
  /\ pc = "render"
  /\ (DOMAIN label2sum) \ rendered = {}
  /\ status' = Status("ok", <<>>)
  /\ pc' = "exit"
  /\ UNCHANGED <<overflow_checks, args_len, labels_file, images_file, labels, images,
                 label2sum, i, rendered, stdout>>

Next == Usage \/ ReadLabels \/ ReadImages \/ CountCheck \/ Aggregate \/ Render \/ Finish

Spec == Init /\ [][Next]_vars

\* ------------------------------------------------ the claims' notions
\* The file formats as the specification states them, on the raw bytes of a
\* file: offsets are 0-based in the text and 1-based in a sequence.

Called(r) == r.io # <<>>
NoDataRead(r) == \A k \in 1..Len(r.io) : r.io[k] # OpReadData

\* the big-endian u32 at byte offset off, as a number
FieldAt(bytes, off) ==
  <<bytes[off + 4], bytes[off + 3], bytes[off + 2], bytes[off + 1]>>
SizeOf(bytes) == Digits(Len(bytes), UsizeBytes)

LabelMagicBytes == <<0, 0, 8, 1>>
ImageMagicBytes == <<0, 0, 8, 3>>

\* count * rows * columns of an image header, exactly
Payload(bytes) == MulD(MulD(FieldAt(bytes, 4), FieldAt(bytes, 8)), FieldAt(bytes, 12))

WellFormedLabels(bytes) ==
  /\ Len(bytes) >= 8
  /\ SubSeq(bytes, 1, 4) = LabelMagicBytes
  /\ EqD(SizeOf(bytes), AddD(<<8>>, FieldAt(bytes, 4)))

WellFormedImages(bytes) ==
  /\ Len(bytes) >= 16
  /\ SubSeq(bytes, 1, 4) = ImageMagicBytes
  /\ EqD(SizeOf(bytes), AddD(<<16>>, Payload(bytes)))

\* a well-formed file without its last byte.  The lost byte is payload, or,
\* when there is no payload, the last byte of the header, which makes the file
\* well-formed as 0 whenever any value does (it is the low byte of a factor of
\* the payload size 0): the byte 0 stands for all 256.
TruncatedLabels(bytes) == WellFormedLabels(bytes \o <<0>>)
TruncatedImages(bytes) == WellFormedImages(bytes \o <<0>>)

\* a well-formed file followed by one more byte
AppendedLabels(bytes) ==
  Len(bytes) >= 1 /\ WellFormedLabels(SubSeq(bytes, 1, Len(bytes) - 1))
AppendedImages(bytes) ==
  Len(bytes) >= 1 /\ WellFormedImages(SubSeq(bytes, 1, Len(bytes) - 1))

\* a well-formed file with exactly one of its four magic bytes changed
OneByteOff(bytes, magic) ==
  Len(bytes) >= 4 /\ Cardinality({k \in 1..4 : bytes[k] # magic[k]}) = 1
MagicMutatedLabels(bytes) ==
  /\ OneByteOff(bytes, LabelMagicBytes)
  /\ WellFormedLabels(LabelMagicBytes \o SubSeq(bytes, 5, Len(bytes)))
MagicMutatedImages(bytes) ==
  /\ OneByteOff(bytes, ImageMagicBytes)
  /\ WellFormedImages(ImageMagicBytes \o SubSeq(bytes, 5, Len(bytes)))

\* ------------------------------------------------------------- claims

\* C1: for every well-formed label file read_labels succeeds, returns as many
\* labels as the header counts, and label i is byte 8 + i of the file.
C1_LabelsDecoded ==
  (Called(labels) /\ labels_file.exists /\ WellFormedLabels(labels_file.bytes)) =>
     /\ labels.ok
     /\ EqD(Digits(Len(labels.value), UsizeBytes), FieldAt(labels_file.bytes, 4))
     /\ \A k \in 1..Len(labels.value) : labels.value[k] = labels_file.bytes[8 + k]

C1_Witness ==
  /\ Called(labels) /\ labels_file.exists /\ WellFormedLabels(labels_file.bytes)
  /\ labels.ok
  /\ Len(labels.value) = 2
  /\ labels.value[1] # labels.value[2]

\* C2: for every well-formed image file read_images succeeds and returns count
\* images in file order, each of width = columns and height = rows, pixel (x, y)
\* of image n, at data[y * width + x], being byte 16 + n*rows*columns +
\* y*columns + x of the file.  With width = columns the index y * width + x is
\* the offset y * columns + x, so the cells are numbered by that offset q.
C2_ImagesDecoded ==
  (Called(images) /\ images_file.exists /\ WellFormedImages(images_file.bytes)) =>
     /\ images.ok
     /\ EqD(Digits(Len(images.value), UsizeBytes), FieldAt(images_file.bytes, 4))
     /\ \A n \in 1..Len(images.value) :
          /\ images.value[n].width = from_be_bytes(SubSeq(images_file.bytes, 13, 16))
          /\ images.value[n].height = from_be_bytes(SubSeq(images_file.bytes, 9, 12))
          /\ EqD(Digits(Len(images.value[n].data), UsizeBytes),
                 MulD(FieldAt(images_file.bytes, 8), FieldAt(images_file.bytes, 12)))
          /\ \A q \in 1..Len(images.value[n].data) :
               images.value[n].data[q] =
                 images_file.bytes[16 + (n - 1) * Len(images.value[n].data) + q]

\* C3 as stated: a well-formed label or image file without its last byte fails
\* with SizeMismatch, before any label or pixel data is read, and returns no data.
C3_TruncatedIsSizeMismatch ==
  /\ (Called(labels) /\ labels_file.exists /\ TruncatedLabels(labels_file.bytes)) =>
       (~labels.ok /\ labels.err = "SizeMismatch" /\ NoDataRead(labels)
        /\ labels.value = <<>>)
  /\ (Called(images) /\ images_file.exists /\ TruncatedImages(images_file.bytes)) =>
       (~images.ok /\ images.err = "SizeMismatch" /\ NoDataRead(images)
        /\ images.value = <<>>)

\* rows * columns of an image header does not fit in 32 bits
DimsOverflow(bytes) == u32_mul(FieldAt(bytes, 8), FieldAt(bytes, 12)).overflow

\* C3 as amended: a well-formed file without its last byte never returns data
\* and no label or pixel data is read from it; when the payload was not empty
\* the failure is SizeMismatch (in a binary with overflow checks, the overflow
\* panic where rows * columns does not fit in 32 bits), and when it was empty
\* the cut is in the header and the failure is the short read of read_be_u32.
C3_TruncatedFails ==
  /\ (Called(labels) /\ labels_file.exists /\ TruncatedLabels(labels_file.bytes)) =>
       /\ ~labels.ok /\ labels.value = <<>> /\ NoDataRead(labels)
       /\ labels.err = IF Len(labels_file.bytes) >= 8 THEN "SizeMismatch"
                       ELSE "TruncatedInput"
  /\ (Called(images) /\ images_file.exists /\ TruncatedImages(images_file.bytes)) =>
       /\ ~images.ok /\ images.value = <<>> /\ NoDataRead(images)
       /\ IF Len(images_file.bytes) >= 16
          THEN \/ images.err = "SizeMismatch"
               \/ /\ overflow_checks /\ DimsOverflow(images_file.bytes)
                  /\ images.err = "PanicOverflow"
          ELSE images.err = "TruncatedInput"

C3_Witness ==
  /\ Called(images) /\ images_file.exists /\ TruncatedImages(images_file.bytes)
  /\ Len(images_file.bytes) > 16
  /\ images.err = "SizeMismatch"
  /\ Called(labels) /\ labels.ok

\* C4: a well-formed file with one magic byte changed fails with MagicMismatch,
\* which reports the actual and the expected magic, returns no data, and is the
\* first validation: only the magic has been read, the size not yet queried.
C4_MagicMismatchFirst ==
  /\ (Called(labels) /\ labels_file.exists /\ MagicMutatedLabels(labels_file.bytes)) =>
       /\ ~labels.ok /\ labels.err = "MagicMismatch" /\ labels.value = <<>>
       /\ labels.detail = <<FieldAt(labels_file.bytes, 0), FieldAt(LabelMagicBytes, 0)>>
       /\ labels.io = <<OpOpen, OpReadHeader>>
       /\ status = Status("MagicMismatch", labels.detail)
  /\ (Called(images) /\ images_file.exists /\ MagicMutatedImages(images_file.bytes)) =>
       /\ ~images.ok /\ images.err = "MagicMismatch" /\ images.value = <<>>
       /\ images.detail = <<FieldAt(images_file.bytes, 0), FieldAt(ImageMagicBytes, 0)>>
       /\ images.io = <<OpOpen, OpReadHeader>>
       /\ status = Status("MagicMismatch", images.detail)

C4_Witness ==
  /\ Called(images) /\ images_file.exists /\ MagicMutatedImages(images_file.bytes)
  /\ images_file.bytes[1] # 0
  /\ Len(images_file.bytes) > 16
  /\ images.err = "MagicMismatch"

\* C5: a well-formed file followed by one extra byte fails with SizeMismatch and
\* returns no data, whatever count, rows and columns are.
C5_AppendedIsSizeMismatch ==
  /\ (Called(labels) /\ labels_file.exists /\ AppendedLabels(labels_file.bytes)) =>
       (~labels.ok /\ labels.err = "SizeMismatch" /\ labels.value = <<>>)
  /\ (Called(images) /\ images_file.exists /\ AppendedImages(images_file.bytes)) =>
       (~images.ok /\ images.err = "SizeMismatch" /\ images.value = <<>>)

\* both decodes succeeded, to the same number of items
Aligned == labels.ok /\ images.ok /\ Len(labels.value) = Len(images.value)

RECURSIVE SumOf(_, _, _)
\* the sum of cell q over those of the first n images that carry label l
SumOf(l, q, n) ==
  IF n = 0 THEN 0
  ELSE SumOf(l, q, n - 1)
       + (IF labels.value[n] = l THEN images.value[n].data[q] ELSE 0)

\* what the render loop printed for label l: its rows of intensities
Blocks(l) == {k \in 1..Len(stdout) : stdout[k].kind = "pixels" /\ stdout[k].a = l}
HasBlocks == \E k \in 1..Len(stdout) : stdout[k].kind \in {"label", "pixels"}

\* the summing loop ran to its end
Summed == Aligned /\ pc \in {"render", "exit"} /\ i = Len(labels.value)

\* C6, the accumulators: once the summing loop has ended, every label of the
\* input has an accumulator, each cell of which is the sum of that cell over
\* the images carrying the label.
C6_Accumulators ==
  Summed =>
    \A n \in 1..Len(labels.value) :
      /\ labels.value[n] \in DOMAIN label2sum
      /\ Len(label2sum[labels.value[n]].data) = Len(images.value[n].data)
      /\ \A q \in 1..Len(images.value[n].data) :
           label2sum[labels.value[n]].data[q] = SumOf(labels.value[n], q, Len(labels.value))

\* C6: the accumulators are the per-label sums, and a rendered composite shows
\* every cell of its accumulator with an intensity in 0..255, the cell holding
\* the maximum sum with exactly 255.
C6_Aggregation ==
  /\ C6_Accumulators
  /\ Aligned =>
       \A l \in rendered :
         \E k \in Blocks(l) :
           /\ Len(stdout[k].pixels) = Len(label2sum[l].data)
           /\ \A q \in 1..Len(label2sum[l].data) :
                /\ stdout[k].pixels[q] \in 0..MaxGray
                /\ label2sum[l].data[q] = MaxOf(label2sum[l].data, 1)
                     => stdout[k].pixels[q] = MaxGray

\* C7: when both files decode, to different counts, the run ends with
\* LabelImageCountMismatch, nothing is summed and no composite is printed;
\* composites are printed only when both decoded to the same count.
C7_CountMismatch ==
  /\ (labels.ok /\ images.ok /\ Len(labels.value) # Len(images.value)) =>
       /\ pc \in {"check", "exit"}
       /\ pc = "exit" => status = Status("LabelImageCountMismatch", <<>>)
       /\ label2sum = <<>> /\ i = 0 /\ rendered = {}
       /\ ~HasBlocks
  /\ HasBlocks => Aligned

C7_Witness ==
  /\ labels.ok /\ images.ok
  /\ Len(labels.value) = 1 /\ Len(images.value) = 2
  /\ pc = "exit"
  /\ status.kind = "LabelImageCountMismatch"
  /\ stdout = <<Out("progress", 1, 2, <<>>)>>

\* C8: with a number of arguments after the program name other than 2 the run
\* prints the usage and ends with UsageError and no file is opened, read or
\* queried; a file is touched only when there are exactly two.
C8_UsageNoIo ==
  /\ args_len - 1 # 2 =>
       /\ ~Called(labels) /\ ~Called(images)
       /\ labels_file = NoFile /\ images_file = NoFile
       /\ pc \in {"main", "exit"}
       /\ pc = "exit" => /\ status = Status("UsageError", <<>>)
                         /\ stdout = <<Out("usage", 0, 0, <<>>)>>
  /\ Called(labels) => args_len - 1 = 2

C8_Witness ==
  /\ args_len - 1 = 3
  /\ pc = "exit"
  /\ status.kind = "UsageError"
  /\ ~Called(labels)

\* read_images got past its size check
PassedSizeCheck(r) ==
  /\ \E k \in 1..Len(r.io) : r.io[k] = OpMetadata
  /\ r.err # "SizeMismatch"

\* C9: with the image magic, read_images passes the size check, and returns
\* images, only if the file's length is 16 + count*rows*columns as exact
\* integers.
C9_SizeCheckExact ==
  (Called(images) /\ images_file.exists /\ (PassedSizeCheck(images) \/ images.ok)) =>
     /\ Len(images_file.bytes) >= 16
     /\ EqD(SizeOf(images_file.bytes), AddD(<<16>>, Payload(images_file.bytes)))

\* an Image whose data has exactly width * height elements
Consistent(image) ==
  EqD(Digits(Len(image.data), UsizeBytes), MulD(image.width, image.height))

\* C10: every Image of a run, raw or accumulator, has data.len() = width *
\* height as exact integers.
C10_ImageInvariant ==
  /\ \A n \in 1..Len(images.value) : Consistent(images.value[n])
  /\ \A l \in DOMAIN label2sum : Consistent(label2sum[l])

====
